---- MODULE Spec2Model ----
(***************************************************************************)
(* A model of the countrs Counter: src/src/lib.rs (the Counter over        *)
(* chrono's DateTime<Utc>), and the integer-seconds clock of               *)
(* src/src/tests.rs (impl Time for i64).                                    *)
(*                                                                         *)
(* TLC's integers are 32 bits wide; an i64, and a count of seconds over    *)
(* chrono's range of years, is wider.  Such numbers are kept exactly, as   *)
(* a sign and a little-endian sequence of base-10^4 limbs.                 *)
(***************************************************************************)
EXTENDS Integers, Sequences, FiniteSets, TLC

----------------------------------------------------------------------------
(* Exact integers of any width.                                            *)

Base == 10^4

RECURSIVE NatNorm(_)
NatNorm(s) ==
    IF s = <<>> THEN <<>>
    ELSE IF s[Len(s)] = 0 THEN NatNorm(SubSeq(s, 1, Len(s) - 1))
    ELSE s

RECURSIVE NatOfInt(_)
NatOfInt(n) ==
    IF n = 0 THEN <<>> ELSE <<n % Base>> \o NatOfInt(n \div Base)

Limb(s, i) == IF i <= Len(s) THEN s[i] ELSE 0

RECURSIVE NatAddFrom(_, _, _, _)
NatAddFrom(a, b, i, c) ==
    IF i > Len(a) /\ i > Len(b)
    THEN (IF c = 0 THEN <<>> ELSE <<c>>)
    ELSE LET t == Limb(a, i) + Limb(b, i) + c
         IN  <<t % Base>> \o NatAddFrom(a, b, i + 1, t \div Base)

NatAdd(a, b) == NatAddFrom(a, b, 1, 0)

RECURSIVE NatSubFrom(_, _, _, _)
NatSubFrom(a, b, i, br) ==
    IF i > Len(a) THEN <<>>
    ELSE LET t == a[i] - Limb(b, i) - br
         IN  IF t < 0 THEN <<t + Base>> \o NatSubFrom(a, b, i + 1, 1)
             ELSE <<t>> \o NatSubFrom(a, b, i + 1, 0)

\* a - b, for a >= b
NatSub(a, b) == NatNorm(NatSubFrom(a, b, 1, 0))

RECURSIVE NatCmpFrom(_, _, _)
NatCmpFrom(a, b, i) ==
    IF i = 0 THEN 0
    ELSE IF a[i] < b[i] THEN -1
    ELSE IF a[i] > b[i] THEN 1
    ELSE NatCmpFrom(a, b, i - 1)

\* -1, 0 or 1 as a < b, a = b, a > b
NatCmp(a, b) ==
    IF Len(a) < Len(b) THEN -1
    ELSE IF Len(a) > Len(b) THEN 1
    ELSE NatCmpFrom(a, b, Len(a))

RECURSIVE NatMulFrom(_, _, _, _)
NatMulFrom(a, m, i, c) ==
    IF i > Len(a) THEN NatOfInt(c)
    ELSE LET t == a[i] * m + c
         IN  <<t % Base>> \o NatMulFrom(a, m, i + 1, t \div Base)

\* a * m, for a small m (0 <= m < 2 * 10^5)
NatMulSmall(a, m) == NatNorm(NatMulFrom(a, m, 1, 0))

RECURSIVE NatDivFrom(_, _, _, _)
NatDivFrom(a, d, i, r) ==
    IF i = 0 THEN [q |-> <<>>, r |-> r]
    ELSE LET cur  == r * Base + a[i]
             rest == NatDivFrom(a, d, i - 1, cur % d)
         IN  [q |-> rest.q \o <<cur \div d>>, r |-> rest.r]

\* quotient and remainder of a by a small d (0 < d < 2 * 10^5)
NatDivSmall(a, d) == NatNorm(NatDivFrom(a, d, Len(a), 0).q)
NatModSmall(a, d) == NatDivFrom(a, d, Len(a), 0).r

RECURSIVE NatToIntFrom(_, _)
NatToIntFrom(a, i) ==
    IF i > Len(a) THEN 0 ELSE a[i] + Base * NatToIntFrom(a, i + 1)

\* the value of a, when it is below 2^31
NatToInt(a) == NatToIntFrom(a, 1)

Big(neg, mag) == [neg |-> neg /\ mag # <<>>, mag |-> mag]
BigOfInt(n)   == IF n < 0 THEN Big(TRUE, NatOfInt(-n)) ELSE Big(FALSE, NatOfInt(n))
BigZero       == Big(FALSE, <<>>)
BigToInt(x)   == IF x.neg THEN -NatToInt(x.mag) ELSE NatToInt(x.mag)
BigNeg(x)     == Big(~x.neg, x.mag)

BigAdd(x, y) ==
    IF x.neg = y.neg THEN Big(x.neg, NatAdd(x.mag, y.mag))
    ELSE IF NatCmp(x.mag, y.mag) >= 0 THEN Big(x.neg, NatSub(x.mag, y.mag))
    ELSE Big(y.neg, NatSub(y.mag, x.mag))

BigSub(x, y) == BigAdd(x, BigNeg(y))

BigCmp(x, y) ==
    IF x.neg /\ ~y.neg THEN -1
    ELSE IF ~x.neg /\ y.neg THEN 1
    ELSE IF x.neg THEN NatCmp(y.mag, x.mag)
    ELSE NatCmp(x.mag, y.mag)

BigLt(x, y) == BigCmp(x, y) < 0
BigLe(x, y) == BigCmp(x, y) <= 0

BigMulSmall(x, m) == Big(x.neg, NatMulSmall(x.mag, m))

\* floor(x / d) and x - d * floor(x / d), for a small d > 0
BigFloorDiv(x, d) ==
    IF ~x.neg THEN Big(FALSE, NatDivSmall(x.mag, d))
    ELSE IF NatModSmall(x.mag, d) = 0 THEN Big(TRUE, NatDivSmall(x.mag, d))
    ELSE Big(TRUE, NatAdd(NatDivSmall(x.mag, d), <<1>>))

BigFloorMod(x, d) ==
    IF ~x.neg \/ NatModSmall(x.mag, d) = 0 THEN NatModSmall(x.mag, d)
    ELSE d - NatModSmall(x.mag, d)

----------------------------------------------------------------------------
(* Text: a sequence of characters, each a one-character string.            *)

Digits   == <<"0", "1", "2", "3", "4", "5", "6", "7", "8", "9">>
DigitSet == {Digits[i] : i \in 1..10}
DigitVal(c) == (CHOOSE i \in 1..10 : Digits[i] = c) - 1

RECURSIVE IntDec(_)
\* the decimal digits of n >= 0
IntDec(n) ==
    IF n < 10 THEN <<Digits[n + 1]>> ELSE IntDec(n \div 10) \o <<Digits[(n % 10) + 1]>>

RECURSIVE PadLeft(_, _, _)
\* Rust's {:c>w}: s filled with c on the left up to the width w
PadLeft(s, w, c) == IF Len(s) >= w THEN s ELSE PadLeft(<<c>> \o s, w, c)

RECURSIVE NatDecFrom(_, _)
NatDecFrom(a, i) ==
    IF i = 0 THEN <<>>
    ELSE PadLeft(IntDec(a[i]), 4, "0") \o NatDecFrom(a, i - 1)

\* Rust's Display of an integer: a leading "-" and the decimal digits
BigDec(x) ==
    IF x.mag = <<>> THEN <<"0">>
    ELSE (IF x.neg THEN <<"-">> ELSE <<>>)
         \o IntDec(x.mag[Len(x.mag)]) \o NatDecFrom(x.mag, Len(x.mag) - 1)

AllDigits(s, p, n) ==
    /\ p + n - 1 <= Len(s)
    /\ \A i \in p..(p + n - 1) : s[i] \in DigitSet

RECURSIVE NumAt(_, _, _)
\* the number written by the n digits of s from position p
NumAt(s, p, n) ==
    IF n = 0 THEN 0 ELSE NumAt(s, p, n - 1) * 10 + DigitVal(s[p + n - 1])

CharAt(s, p) == IF p >= 1 /\ p <= Len(s) THEN s[p] ELSE "EOF"

RECURSIVE SplitFrom(_, _, _, _)
SplitFrom(s, sep, i, cur) ==
    IF i > Len(s) THEN <<cur>>
    ELSE IF s[i] = sep THEN <<cur>> \o SplitFrom(s, sep, i + 1, <<>>)
    ELSE SplitFrom(s, sep, i + 1, Append(cur, s[i]))

\* str::split on a one-character separator: always at least one field
Split(s, sep) == SplitFrom(s, sep, 1, <<>>)

RECURSIVE Join(_, _)
Join(fields, sep) ==
    IF Len(fields) = 0 THEN <<>>
    ELSE IF Len(fields) = 1 THEN fields[1]
    ELSE fields[1] \o <<sep>> \o Join(Tail(fields), sep)

----------------------------------------------------------------------------
(* chrono: DateTime<Utc> and Duration.  Both are a whole number of seconds *)
(* (from the epoch, for a DateTime) and 0..999999999 nanoseconds on top.   *)

NanosPerSec == 10^9
SecsPerDay  == 24 * 3600

DT(secs, nanos) == [secs |-> secs, nanos |-> nanos]

\* chrono::Duration::seconds and a Duration of whole seconds and nanoseconds
Duration_seconds(n) == DT(BigOfInt(n), 0)

\* lhs + rhs and lhs - rhs, exactly
DTAdd(a, b) ==
    LET n == a.nanos + b.nanos
    IN  IF n >= NanosPerSec
        THEN DT(BigAdd(BigAdd(a.secs, b.secs), BigOfInt(1)), n - NanosPerSec)
        ELSE DT(BigAdd(a.secs, b.secs), n)

DTSub(a, b) ==
    LET n == a.nanos - b.nanos
    IN  IF n < 0
        THEN DT(BigSub(BigSub(a.secs, b.secs), BigOfInt(1)), n + NanosPerSec)
        ELSE DT(BigSub(a.secs, b.secs), n)

DTLe(a, b) ==
    \/ BigLt(a.secs, b.secs)
    \/ a.secs = b.secs /\ a.nanos <= b.nanos

\* chrono::Duration::num_seconds: the whole seconds, truncated towards zero
num_seconds(d) ==
    IF d.secs.neg /\ d.nanos > 0 THEN BigAdd(d.secs, BigOfInt(1)) ELSE d.secs

\* the proleptic Gregorian calendar: days from 1970-01-01 to y-m-d and back
DaysFromCivil(y, m, d) ==
    LET yy  == IF m <= 2 THEN y - 1 ELSE y
        era == yy \div 400
        yoe == yy - era * 400
        mp  == IF m > 2 THEN m - 3 ELSE m + 9
        doy == (153 * mp + 2) \div 5 + d - 1
        doe == yoe * 365 + yoe \div 4 - yoe \div 100 + doy
    IN  era * 146097 + doe - 719468

CivilFromDays(z0) ==
    LET z   == z0 + 719468
        era == z \div 146097
        doe == z - era * 146097
        yoe == (doe - doe \div 1460 + doe \div 36524 - doe \div 146096) \div 365
        doy == doe - (365 * yoe + yoe \div 4 - yoe \div 100)
        mp  == (5 * doy + 2) \div 153
        d   == doy - (153 * mp + 2) \div 5 + 1
        m   == IF mp < 10 THEN mp + 3 ELSE mp - 9
        y   == yoe + era * 400 + (IF m <= 2 THEN 1 ELSE 0)
    IN  [year |-> y, month |-> m, day |-> d]

IsLeap(y) == y % 4 = 0 /\ (y % 100 # 0 \/ y % 400 = 0)
DaysInMonth(y, m) ==
    IF m = 2 THEN (IF IsLeap(y) THEN 29 ELSE 28)
    ELSE IF m \in {4, 6, 9, 11} THEN 30 ELSE 31

\* the DateTime<Utc> of a civil date and time of day
DateTimeOf(y, m, d, hh, mm, ss, nanos) ==
    DT(BigAdd(BigMulSmall(BigOfInt(DaysFromCivil(y, m, d)), SecsPerDay),
              BigOfInt(hh * 3600 + mm * 60 + ss)),
       nanos)

\* chrono's range of years: MAX_YEAR = i32::MAX >> 13, MIN_YEAR = i32::MIN >> 13
MAX_YEAR == 2147483647 \div 8192
MIN_YEAR == -(MAX_YEAR + 1)
MIN_UTC  == DateTimeOf(MIN_YEAR, 1, 1, 0, 0, 0, 0)
MAX_UTC  == DateTimeOf(MAX_YEAR, 12, 31, 23, 59, 59, NanosPerSec - 1)

\* DateTime<Utc>::default(): the epoch
DateTime_default == DT(BigZero, 0)

Some(v) == [some |-> TRUE, val |-> v]
None    == [some |-> FALSE]

\* DateTime::checked_add_signed: None when the sum leaves chrono's range
checked_add_signed(t, d) ==
    LET sum == DTAdd(t, d)
    IN  IF DTLe(MIN_UTC, sum) /\ DTLe(sum, MAX_UTC) THEN Some(sum) ELSE None

----------------------------------------------------------------------------
(* chrono: DateTime::to_rfc3339 and DateTime::parse_from_rfc3339.           *)

Pad2(n) == PadLeft(IntDec(n), 2, "0")

\* the year: four digits from 0 to 9999, else a sign and at least four digits
YearText(y) ==
    IF y >= 0 /\ y <= 9999 THEN PadLeft(IntDec(y), 4, "0")
    ELSE IF y < 0 THEN <<"-">> \o PadLeft(IntDec(-y), 4, "0")
    ELSE <<"+">> \o PadLeft(IntDec(y), 4, "0")

\* the fraction of a second: none, or 3, 6 or 9 digits, whichever loses nothing
FractionText(nanos) ==
    IF nanos = 0 THEN <<>>
    ELSE IF nanos % 1000000 = 0 THEN <<".">> \o PadLeft(IntDec(nanos \div 1000000), 3, "0")
    ELSE IF nanos % 1000 = 0 THEN <<".">> \o PadLeft(IntDec(nanos \div 1000), 6, "0")
    ELSE <<".">> \o PadLeft(IntDec(nanos), 9, "0")

to_rfc3339(t) ==
    LET date == CivilFromDays(BigToInt(BigFloorDiv(t.secs, SecsPerDay)))
        sod  == BigFloorMod(t.secs, SecsPerDay)
    IN  YearText(date.year) \o <<"-">> \o Pad2(date.month) \o <<"-">> \o Pad2(date.day)
        \o <<"T">> \o Pad2(sod \div 3600) \o <<":">> \o Pad2((sod \div 60) % 60)
        \o <<":">> \o Pad2(sod % 60) \o FractionText(t.nanos)
        \o <<"+", "0", "0", ":", "0", "0">>

Ok(v)  == [ok |-> TRUE, val |-> v]
Err(e) == [ok |-> FALSE, err |-> e]

RECURSIVE DigitRun(_, _)
\* how many digits s holds from position p on
DigitRun(s, p) ==
    IF p <= Len(s) /\ s[p] \in DigitSet THEN 1 + DigitRun(s, p + 1) ELSE 0

\* the nanoseconds written by the k digits of a fraction at p: nine count
FractionAt(s, p, k) ==
    IF k >= 9 THEN NumAt(s, p, 9) ELSE NumAt(s, p, k) * 10^(9 - k)

\* the offset from UTC at p, in seconds, and the position after it
OffsetAt(s, p) ==
    IF CharAt(s, p) \in {"Z", "z"} THEN Ok([secs |-> 0, next |-> p + 1])
    ELSE IF /\ CharAt(s, p) \in {"+", "-"}
            /\ AllDigits(s, p + 1, 2)
            /\ CharAt(s, p + 3) = ":"
            /\ AllDigits(s, p + 4, 2)
            /\ NumAt(s, p + 4, 2) < 60
         THEN LET secs == NumAt(s, p + 1, 2) * 3600 + NumAt(s, p + 4, 2) * 60
              IN  IF secs >= SecsPerDay THEN Err("ParseError")
                  ELSE Ok([secs |-> IF s[p] = "-" THEN -secs ELSE secs, next |-> p + 6])
    ELSE Err("ParseError")

\* year (four digits) - month - day T hour : minute : second [. fraction]
\* offset, and nothing after it; the fields must name a date and a time.
\* (A second of 60, a leap second, is not among the texts modelled.)
parse_from_rfc3339(s) ==
    IF ~(/\ AllDigits(s, 1, 4) /\ CharAt(s, 5) = "-"
         /\ AllDigits(s, 6, 2) /\ CharAt(s, 8) = "-"
         /\ AllDigits(s, 9, 2) /\ CharAt(s, 11) \in {"T", "t"}
         /\ AllDigits(s, 12, 2) /\ CharAt(s, 14) = ":"
         /\ AllDigits(s, 15, 2) /\ CharAt(s, 17) = ":"
         /\ AllDigits(s, 18, 2))
    THEN Err("ParseError")
    ELSE LET y     == NumAt(s, 1, 4)
             m     == NumAt(s, 6, 2)
             d     == NumAt(s, 9, 2)
             hh    == NumAt(s, 12, 2)
             mm    == NumAt(s, 15, 2)
             ss    == NumAt(s, 18, 2)
             frac  == CharAt(s, 20) = "."
             k     == IF frac THEN DigitRun(s, 21) ELSE 0
             nanos == IF frac THEN FractionAt(s, 21, k) ELSE 0
             off   == OffsetAt(s, IF frac THEN 21 + k ELSE 20)
         IN  IF \/ frac /\ k = 0
                \/ ~off.ok
                \/ m < 1 \/ m > 12 \/ d < 1 \/ d > DaysInMonth(y, m)
                \/ hh > 23 \/ mm > 59 \/ ss > 59
             THEN Err("ParseError")
             ELSE IF off.val.next # Len(s) + 1 THEN Err("ParseError")
             ELSE Ok(DTSub(DateTimeOf(y, m, d, hh, mm, ss, nanos),
                           Duration_seconds(off.val.secs)))

----------------------------------------------------------------------------
(* src/src/lib.rs: Direction and Counter.                                  *)

Direction == {"Up", "Down"}

\* impl Display for Direction
Direction_to_string(direction) ==
    IF direction = "Up" THEN <<"U", "p">> ELSE <<"D", "o", "w", "n">>

\* a parse that takes any other token for Down
Direction_from_str_defaulting(string) ==
    IF string = <<"U", "p">> THEN Ok("Up") ELSE Ok("Down")

\* impl FromStr for Direction
Direction_from_str(string) ==
    IF string = <<"U", "p">> THEN Ok("Up")
    ELSE IF string = <<"D", "o", "w", "n">> THEN Ok("Down")
    ELSE Err("ConversionError")

unwrap_or_default(opt) == IF opt.some THEN opt.val ELSE DateTime_default

Counter(s, e, d) == [start |-> s, end |-> e, direction |-> d]

\* a down that gives the end one second of grace
Counter_down_grace(s, e) ==
    Counter(unwrap_or_default(s), DTAdd(unwrap_or_default(e), Duration_seconds(1)), "Down")

Counter_down(s, e) == Counter(unwrap_or_default(s), unwrap_or_default(e), "Down")
Counter_up(s, e)   == Counter(unwrap_or_default(s), unwrap_or_default(e), "Up")

\* a flip whose two arms both give Down
flip_to_down(c) == [c EXCEPT !.direction = "Down"]

\* a flip that swaps the endpoints with the direction
flip_swapping(c) ==
    [start |-> c.end, end |-> c.start,
     direction |-> IF c.direction = "Up" THEN "Down" ELSE "Up"]

\* Counter::flip
flip(c) ==
    [c EXCEPT !.direction = IF c.direction = "Up" THEN "Down" ELSE "Up"]

\* a match whose Down arm counts from start like the Up arm
duration_counting_up(c, t) == DTSub(t, c.start)

\* the match of Counter::counter on the direction, with t the value of Utc::now()
duration(c, t) ==
    IF c.direction = "Down" THEN DTSub(c.end, t) ELSE DTSub(t, c.start)

\* Rust's / and % on a negative i64 truncate towards zero: without the
\* guard num >= 0 the components of a negative num come out negative
hms_unclamped(num) ==
    <<Big(num.neg, NatDivSmall(num.mag, 3600)),
      (IF num.neg THEN -1 ELSE 1) * NatModSmall(NatDivSmall(num.mag, 60), 60),
      (IF num.neg THEN -1 ELSE 1) * NatModSmall(num.mag, 60)>>

\* num / (60 % 60) is a division by zero; num / 60 without % 60 is the slip
hms_total_minutes(num) ==
    IF ~num.neg
    THEN <<Big(FALSE, NatDivSmall(num.mag, 3600)),
           NatToInt(NatDivSmall(num.mag, 60)),
           NatModSmall(num.mag, 60)>>
    ELSE <<BigZero, 0, 0>>

\* the match of Counter::counter on duration.num_seconds(): i64 arithmetic,
\* / and % truncating; num / 60 % 60 is (num / 60) % 60
hms(num) ==
    IF ~num.neg
    THEN <<Big(FALSE, NatDivSmall(num.mag, 3600)),
           NatModSmall(NatDivSmall(num.mag, 60), 60),
           NatModSmall(num.mag, 60)>>
    ELSE <<BigZero, 0, 0>>

\* Counter::counter
counter(c, t) == hms(num_seconds(duration(c, t)))

\* Counter::seconds, Counter::minutes and Counter::hours: the whole seconds,
\* minutes and hours of the duration, none for a negative duration
Counter_seconds(c, t) ==
    LET num == num_seconds(duration(c, t))
    IN  IF num.neg THEN BigZero ELSE num

Counter_minutes(c, t) == Big(FALSE, NatDivSmall(Counter_seconds(c, t).mag, 60))

Counter_hours(c, t) == Big(FALSE, NatDivSmall(Counter_seconds(c, t).mag, 3600))

\* a try_move_start that stores the nearest representable instant on overflow
try_move_start_saturating(c, offset) ==
    LET new_start == checked_add_signed(c.start, offset)
    IN  IF new_start.some
        THEN [self |-> [c EXCEPT !.start = new_start.val], ret |-> "Ok"]
        ELSE [self |-> [c EXCEPT !.start = IF offset.secs.neg THEN MIN_UTC ELSE MAX_UTC],
              ret |-> "TimeOverflow"]

\* Counter::try_move_start and Counter::try_move_end: the Counter after the
\* call and what the call returns
try_move_start(c, offset) ==
    LET new_start == checked_add_signed(c.start, offset)
    IN  IF new_start.some
        THEN [self |-> [c EXCEPT !.start = new_start.val], ret |-> "Ok"]
        ELSE [self |-> c, ret |-> "TimeOverflow"]

try_move_end(c, offset) ==
    LET new_end == checked_add_signed(c.end, offset)
    IN  IF new_end.some
        THEN [self |-> [c EXCEPT !.end = new_end.val], ret |-> "Ok"]
        ELSE [self |-> c, ret |-> "TimeOverflow"]

\* a Display that rolls the hours over into days
Counter_to_string_rolling(c, t) ==
    LET r == counter(c, t)
    IN  PadLeft(IntDec(NatModSmall(r[1].mag, 24)), 2, "0") \o <<":">>
        \o PadLeft(IntDec(r[2]), 2, "0") \o <<":">> \o PadLeft(IntDec(r[3]), 2, "0")

\* impl Display for Counter: {:0>2}:{:0>2}:{:0>2}
Counter_to_string(c, t) ==
    LET r == counter(c, t)
    IN  PadLeft(BigDec(r[1]), 2, "0") \o <<":">> \o PadLeft(IntDec(r[2]), 2, "0")
        \o <<":">> \o PadLeft(IntDec(r[3]), 2, "0")

\* Counter::to_file: the text written
to_file(c) ==
    to_rfc3339(c.start) \o <<"\n">> \o to_rfc3339(c.end) \o <<"\n">>
    \o Direction_to_string(c.direction)

\* a from_file that wants three fields and no more
from_file_exactly_three(text) ==
    LET lines == Split(text, "\n")
    IN  IF Len(lines) = 3
        THEN LET s == parse_from_rfc3339(lines[1])
                 e == parse_from_rfc3339(lines[2])
                 d == Direction_from_str(lines[3])
             IN  IF ~s.ok \/ ~e.ok \/ ~d.ok
                 THEN Err("File does not contain valid counter data")
                 ELSE Ok(Counter(s.val, e.val, d.val))
        ELSE Err("File does not contain valid counter data")

\* Counter::from_file, on the text read
from_file(text) ==
    LET lines == Split(text, "\n")
    IN  IF Len(lines) >= 3
        THEN LET s == parse_from_rfc3339(lines[1])
                 e == parse_from_rfc3339(lines[2])
                 d == Direction_from_str(lines[3])
             IN  IF ~s.ok THEN Err("File does not contain valid start data")
                 ELSE IF ~e.ok THEN Err("File does not contain valid end data")
                 ELSE IF ~d.ok THEN Err("File doesn ot contain valid direciton data")
                 ELSE Ok(Counter(s.val, e.val, d.val))
        ELSE Err("File does not contain valid counter data")

----------------------------------------------------------------------------
(* The Counter as a state machine: one Counter, the clock Utc::now() reads, *)
(* and the file to_file writes and from_file reads.                         *)

VARIABLES
    start,      \* Counter::start
    end,        \* Counter::end
    direction,  \* Counter::direction
    now,        \* what Utc::now() returns
    last,       \* the last call: its name, the Counter before it, its argument
                \* and what it returned
    file,       \* the file: None before it is written, else its text, the
                \* Counter that was written and what was done to the text since
    made,       \* the call of Counter::up or Counter::down that made the
                \* Counter: its arguments and the clock then
    build,      \* how the program was compiled: "debug" (overflow checks on)
                \* or "release" (overflow checks off)
    moves,      \* calls of try_move_start and try_move_end so far
    ticks       \* advances of the clock so far

vars == <<start, end, direction, now, last, file, made, build, moves, ticks>>

MaxMoves == 2
MaxFileMoves == 1
MaxTicks == 2

Self == Counter(start, end, direction)

Days(n)  == DT(BigMulSmall(BigOfInt(n), SecsPerDay), 0)
Weeks(n) == Days(7 * n)

\* the clock when the Counter is made: 2024-01-01T00:00:00.5Z
Now0 == DateTimeOf(2024, 1, 1, 0, 0, 0, NanosPerSec \div 2)

\* the spans the callers hand to try_move_start and try_move_end
Offsets ==
    { Duration_seconds(10), Duration_seconds(-10), Days(10), DT(BigZero, 1000),
      Weeks(500000), Days(10^8), Days(-(10^8)) }

\* the steps of the clock between two calls
Deltas == { DT(BigZero, NanosPerSec \div 4), Duration_seconds(1), Duration_seconds(3600) }

\* the (start, end) arguments of Counter::up and Counter::down
Args ==
    { <<None, None>>,
      <<None, Some(DTAdd(Now0, Duration_seconds(10)))>>,
      <<Some(DTSub(Now0, Duration_seconds(10))), None>>,
      <<Some(DTSub(Now0, Duration_seconds(10))), Some(DTAdd(Now0, Duration_seconds(3725)))>>,
      <<Some(DTSub(Now0, Days(10))), Some(Now0)>>,
      <<Some(Now0), Some(DTAdd(Now0, DT(BigOfInt(3725), 1)))>> }

\* what is done to the text of the file behind the Counter's back: nothing,
\* or the text is cut to its first n fields, or field n is replaced by a
\* token, or a newline and a token are added at the end
Edit(kind, n, token) == [kind |-> kind, n |-> n, token |-> token]
NoEdit == Edit("none", 0, <<>>)

DirectionTokens ==
    { <<"S", "i", "d", "e", "w", "a", "y", "s">>, <<"u", "p">>, <<>>,
      <<"D", "o", "w", "n", " ">>, <<"U", "p">>, <<"D", "o", "w", "n">> }

InstantTokens ==
    { <<"n", "o", "w">>,
      <<"2", "0", "2", "4", "-", "0", "2", "-", "3", "0", "T", "0", "0", ":", "0", "0",
        ":", "0", "0", "Z">>,
      <<"2", "0", "2", "4", "-", "0", "2", "-", "2", "9", "T", "0", "1", ":", "0", "0",
        ":", "0", "0", ".", "2", "5", "+", "0", "1", ":", "0", "0">> }

Edits ==
    {Edit("cut", n, <<>>) : n \in 0..2}
    \cup {Edit("replace", 3, t) : t \in DirectionTokens}
    \cup {Edit("replace", n, t) : n \in 1..2, t \in InstantTokens}
    \cup {Edit("append", 0, t) : t \in {<<>>, <<"x">>, <<"U", "p">>}}

Edited(text, e) ==
    LET f == Split(text, "\n")
    IN  IF e.kind = "cut" THEN Join(SubSeq(f, 1, e.n), "\n")
        ELSE IF e.kind = "replace" THEN Join([f EXCEPT ![e.n] = e.token], "\n")
        ELSE IF e.kind = "append" THEN text \o <<"\n">> \o e.token
        ELSE text

\* the record of a call; twice: the call is a flip that follows a flip, and
\* origin is then the Counter before the two
Call(op, arg, ret) ==
    [op |-> op, pre |-> Self, arg |-> arg, ret |-> ret, twice |-> FALSE, origin |-> Self]

SetSelf(c) ==
    /\ start' = c.start
    /\ end' = c.end
    /\ direction' = c.direction

Init ==
    /\ \E a \in Args, d \in Direction :
          LET c == IF d = "Down" THEN Counter_down(a[1], a[2]) ELSE Counter_up(a[1], a[2])
          IN  /\ start = c.start
              /\ end = c.end
              /\ direction = c.direction
              /\ last = [op |-> IF d = "Down" THEN "down" ELSE "up", pre |-> c,
                          arg |-> a, ret |-> c, twice |-> FALSE, origin |-> c]
              /\ made = [arg |-> a, at |-> Now0]
    /\ now = Now0
    /\ file = None
    /\ build = "debug"   \* lib.rs and chrono behave the same in both builds
    /\ moves = 0
    /\ ticks = 0

Flip ==
    /\ SetSelf(flip(Self))
    /\ last' = IF last.op = "flip" /\ ~last.twice
               THEN [Call("flip", "none", "unit") EXCEPT !.twice = TRUE, !.origin = last.pre]
               ELSE Call("flip", "none", "unit")
    /\ UNCHANGED <<made, build, now, file, moves, ticks>>

TryMoveStart ==
    /\ moves < MaxMoves
    /\ \E offset \in Offsets :
          LET r == try_move_start(Self, offset)
          IN  /\ SetSelf(r.self)
              /\ last' = Call("try_move_start", offset, r.ret)
    /\ moves' = moves + 1
    /\ UNCHANGED <<made, build, now, file, ticks>>

TryMoveEnd ==
    /\ moves < MaxMoves
    /\ \E offset \in Offsets :
          LET r == try_move_end(Self, offset)
          IN  /\ SetSelf(r.self)
              /\ last' = Call("try_move_end", offset, r.ret)
    /\ moves' = moves + 1
    /\ UNCHANGED <<made, build, now, file, ticks>>

\* Counter::counter(), reading the clock once
Query ==
    /\ last' = Call("counter", now, counter(Self, now))
    /\ UNCHANGED <<made, build, start, end, direction, now, file, moves, ticks>>

\* Counter::to_string(), by impl Display
Show ==
    /\ last' = Call("to_string", now, Counter_to_string(Self, now))
    /\ UNCHANGED <<made, build, start, end, direction, now, file, moves, ticks>>

\* Counter::hours(), Counter::minutes() and Counter::seconds(), on one
\* reading of the clock
Accessors ==
    /\ last' = Call("accessors", now,
                    <<Counter_hours(Self, now), Counter_minutes(Self, now),
                      Counter_seconds(Self, now)>>)
    /\ UNCHANGED <<made, build, start, end, direction, now, file, moves, ticks>>

\* the clock advances between two calls
Tick ==
    /\ ticks < MaxTicks
    /\ \E delta \in Deltas : now' = DTAdd(now, delta)
    /\ ticks' = ticks + 1
    /\ last' = Call("tick", "none", "unit")
    /\ UNCHANGED <<made, build, start, end, direction, file, moves>>

\* Counter::to_file: fs::write replaces the file by the three fields
ToFile ==
    /\ file' = Some([text |-> to_file(Self), by |-> Self, edit |-> NoEdit])
    /\ last' = Call("to_file", "none", "Ok")
    /\ UNCHANGED <<made, build, start, end, direction, now, moves, ticks>>

\* something else rewrites the file between to_file and from_file
Corrupt ==
    /\ file.some
    /\ file.val.edit = NoEdit
    /\ \E e \in Edits :
          file' = Some([file.val EXCEPT !.text = Edited(file.val.text, e), !.edit = e])
    /\ UNCHANGED <<made, build, start, end, direction, now, last, moves, ticks>>

\* Counter::from_file: read_to_string fails when there is no file
FromFile ==
    /\ last' = Call("from_file", file,
                    IF file.some THEN from_file(file.val.text) ELSE Err("io::Error"))
    /\ UNCHANGED <<made, build, start, end, direction, now, file, moves, ticks>>

Next == Flip \/ TryMoveStart \/ TryMoveEnd \/ Query \/ Show \/ Accessors \/ Tick

Spec == Init /\ [][Next]_vars

\* the Counter, made Up or Down and moved, written to the file and read back
NextFile ==
    \/ ~file.some /\ moves < MaxFileMoves /\ TryMoveStart
    \/ ~file.some /\ moves < MaxFileMoves /\ TryMoveEnd
    \/ ToFile
    \/ Corrupt
    \/ FromFile

SpecFile == Init /\ [][NextFile]_vars

----------------------------------------------------------------------------
(* Properties of counter(), try_move_start, try_move_end, flip and Display. *)

Zero3 == <<BigZero, 0, 0>>

\* the signed whole seconds the last call of counter() or to_string() saw
SeenSeconds == num_seconds(duration(last.pre, last.arg))

\* C1: whatever the Counter and the clock, counter() returns three components
\* that are all >= 0, and exactly (0, 0, 0) when the signed seconds of the
\* duration are negative.
C1_CounterNeverNegative ==
    last.op = "counter" =>
        /\ ~last.ret[1].neg /\ last.ret[2] >= 0 /\ last.ret[3] >= 0
        /\ SeenSeconds.neg => last.ret = Zero3

C1_Witness ==
    /\ last.op = "counter"
    /\ moves > 0
    /\ SeenSeconds.neg
    /\ last.ret = Zero3

\* C2: for a duration of t >= 0 whole seconds counter() returns hours,
\* minutes and seconds with minutes and seconds in 0..59 and
\* hours * 3600 + minutes * 60 + seconds = t, which is
\* (t / 3600, (t / 60) % 60, t % 60).
C2_CounterSplitsSeconds ==
    (last.op = "counter" /\ ~SeenSeconds.neg) =>
        /\ last.ret[2] \in 0..59
        /\ last.ret[3] \in 0..59
        /\ ~last.ret[1].neg
        /\ BigAdd(BigMulSmall(last.ret[1], 3600),
                  BigOfInt(last.ret[2] * 60 + last.ret[3])) = SeenSeconds

C2_Witness ==
    /\ last.op = "counter"
    /\ ~SeenSeconds.neg
    /\ BigLt(BigOfInt(99), last.ret[1])
    /\ last.ret[2] > 0
    /\ last.ret[3] > 0

\* C3: try_move_start either stores start + offset and returns Ok, or returns
\* the overflow error and leaves start as it was; end and direction are
\* unchanged either way.  try_move_end is the same for end.
C3_TryMoveAtomic ==
    /\ last.op = "try_move_start" =>
          /\ \/ last.ret = "Ok" /\ start = DTAdd(last.pre.start, last.arg)
             \/ last.ret = "TimeOverflow" /\ start = last.pre.start
          /\ end = last.pre.end
          /\ direction = last.pre.direction
    /\ last.op = "try_move_end" =>
          /\ \/ last.ret = "Ok" /\ end = DTAdd(last.pre.end, last.arg)
             \/ last.ret = "TimeOverflow" /\ end = last.pre.end
          /\ start = last.pre.start
          /\ direction = last.pre.direction

C3_Witness ==
    /\ last.op = "try_move_start"
    /\ last.ret = "TimeOverflow"
    /\ moves = 2
    /\ start = last.pre.start
    /\ start # DateTime_default

\* C8: two flips in a row give back the Counter they started from, direction,
\* start and end, and with the same clock the same displayed time.
C8_FlipTwice ==
    (last.op = "flip" /\ last.twice) =>
        /\ Self = last.origin
        /\ counter(Self, now) = counter(last.origin, now)
        /\ Counter_to_string(Self, now) = Counter_to_string(last.origin, now)

C8_Witness ==
    /\ last.op = "flip"
    /\ last.twice
    /\ Self = last.origin
    /\ counter(last.pre, now) # counter(Self, now)

Secs(n) == Duration_seconds(n)

\* C9: one flip turns Up into Down and Down into Up and leaves start and end
\* alone, so that counter() then follows the other direction's formula: a
\* Down counter with start = now - a and end = now + b shows b before the flip
\* and a after it.
C9_FlipFrame ==
    last.op = "flip" =>
        /\ direction # last.pre.direction
        /\ direction \in Direction
        /\ start = last.pre.start
        /\ end = last.pre.end
        /\ counter(Self, now) =
              hms(num_seconds(IF last.pre.direction = "Down"
                              THEN DTSub(now, last.pre.start)
                              ELSE DTSub(last.pre.end, now)))
        /\ \A a, b \in {0, 10, 3725} :
              (/\ last.pre.direction = "Down"
               /\ last.pre.start = DTSub(now, Secs(a))
               /\ last.pre.end = DTAdd(now, Secs(b)))
              => /\ counter(last.pre, now) = hms(BigOfInt(b))
                 /\ counter(Self, now) = hms(BigOfInt(a))

C9_Witness ==
    /\ last.op = "flip"
    /\ last.pre.direction = "Down"
    /\ last.pre.start = DTSub(now, Secs(10))
    /\ last.pre.end = DTAdd(now, Secs(3725))
    /\ counter(Self, now) = <<BigZero, 0, 10>>
    /\ counter(last.pre, now) = <<BigOfInt(1), 2, 5>>

RECURSIVE NatOfDec(_, _)
\* the number a run of decimal digits writes
NatOfDec(text, n) ==
    IF n = 0 THEN <<>>
    ELSE NatAdd(NatMulSmall(NatOfDec(text, n - 1), 10), NatOfInt(DigitVal(text[n])))

IsDigits(text) == \A i \in 1..Len(text) : text[i] \in DigitSet

\* C10: Display writes hours:minutes:seconds of the clamped counter(): minutes
\* and seconds as exactly two digits, hours as two digits below 10 and at its
\* natural width from 100 on, never cut and never rolled over into days, and no
\* component negative; an Up counter started 864000 seconds ago shows 240:00:00.
C10_DisplayClock ==
    last.op = "to_string" =>
        LET r == counter(last.pre, last.arg)
            f == Split(last.ret, ":")
        IN  /\ Len(f) = 3
            /\ IsDigits(f[1]) /\ IsDigits(f[2]) /\ IsDigits(f[3])
            /\ Len(f[2]) = 2 /\ NumAt(f[2], 1, 2) = r[2]
            /\ Len(f[3]) = 2 /\ NumAt(f[3], 1, 2) = r[3]
            /\ Len(f[1]) >= 2
            /\ Len(f[1]) > 2 => f[1][1] # "0"
            /\ Big(FALSE, NatOfDec(f[1], Len(f[1]))) = r[1]
            /\ (/\ last.pre.direction = "Up"
                /\ last.pre.start = DTSub(last.arg, Secs(864000)))
               => last.ret = <<"2", "4", "0", ":", "0", "0", ":", "0", "0">>

C10_Witness ==
    /\ last.op = "to_string"
    /\ last.pre.direction = "Up"
    /\ last.pre.start = DTSub(last.arg, Secs(864000))
    /\ last.ret = <<"2", "4", "0", ":", "0", "0", ":", "0", "0">>

\* the endpoint a constructor stores for an argument
Stored(opt) == IF opt.some THEN opt.val ELSE DateTime_default

\* the whole seconds n >= 0 split by hand
Split3(n) == <<BigOfInt(n \div 3600), (n \div 60) % 60, n % 60>>

Spans == {0, 10, 3725, 864000}

\* C11: Counter::up and Counter::down store the given start and end as they
\* are, default for an absent one, in any order and with nothing added;
\* counter() reports end - now for Down and now - start for Up over the stored
\* endpoints; so down(None, Some(now + n)) and up(Some(now - n), None), queried
\* at that same now, report exactly n seconds.
C11_DurationFromStoredEndpoints ==
    /\ last.op \in {"down", "up"} =>
          Self = [start |-> Stored(made.arg[1]), end |-> Stored(made.arg[2]),
                  direction |-> IF last.op = "down" THEN "Down" ELSE "Up"]
    /\ moves = 0 => (start = Stored(made.arg[1]) /\ end = Stored(made.arg[2]))
    /\ last.op = "counter" =>
          last.ret = hms(num_seconds(IF last.pre.direction = "Down"
                                     THEN DTSub(last.pre.end, last.arg)
                                     ELSE DTSub(last.arg, last.pre.start)))
    /\ (last.op = "counter" /\ moves = 0 /\ last.arg = made.at) =>
          \A n \in Spans :
             /\ (direction = "Down" /\ made.arg[2] = Some(DTAdd(made.at, Secs(n))))
                   => last.ret = Split3(n)
             /\ (direction = "Up" /\ made.arg[1] = Some(DTSub(made.at, Secs(n))))
                   => last.ret = Split3(n)

C11_Witness ==
    /\ last.op = "counter"
    /\ moves = 0
    /\ last.arg = made.at
    /\ direction = "Down"
    /\ made.arg = <<None, Some(DTAdd(made.at, Secs(10)))>>
    /\ last.ret = <<BigZero, 0, 10>>

\* C12: hours(), minutes() and seconds() are the cumulative whole hours,
\* minutes and seconds of the clamped duration: on the same reading of the
\* clock hours() = counter().0, minutes() % 60 = counter().1,
\* seconds() % 60 = counter().2, minutes() = seconds() / 60 and
\* hours() = seconds() / 3600, and all three are 0 for a negative duration.
C12_AccessorsCumulative ==
    last.op = "accessors" =>
        LET r == counter(last.pre, last.arg)
            h == last.ret[1]
            m == last.ret[2]
            s == last.ret[3]
        IN  /\ ~h.neg /\ ~m.neg /\ ~s.neg
            /\ h = r[1]
            /\ NatModSmall(m.mag, 60) = r[2]
            /\ NatModSmall(s.mag, 60) = r[3]
            /\ m = BigFloorDiv(s, 60)
            /\ h = BigFloorDiv(s, 3600)
            /\ SeenSeconds.neg => (h = BigZero /\ m = BigZero /\ s = BigZero)
            /\ ~SeenSeconds.neg => s = SeenSeconds
            /\ Counter_to_string(last.pre, last.arg) =
                  PadLeft(BigDec(h), 2, "0") \o <<":">>
                  \o PadLeft(IntDec(NatModSmall(m.mag, 60)), 2, "0") \o <<":">>
                  \o PadLeft(IntDec(NatModSmall(s.mag, 60)), 2, "0")

\* more than an hour shown: minutes() and seconds() exceed their clock fields
C12_Witness ==
    /\ last.op = "accessors"
    /\ last.ret = <<BigOfInt(1), BigOfInt(62), BigOfInt(3725)>>
    /\ counter(last.pre, last.arg) = <<BigOfInt(1), 2, 5>>

----------------------------------------------------------------------------
(* Properties of to_file and from_file, under SpecFile.                    *)

YearOf(t) == CivilFromDays(BigToInt(BigFloorDiv(t.secs, SecsPerDay))).year

FourDigitYears(c) ==
    /\ YearOf(c.start) \in 0..9999
    /\ YearOf(c.end) \in 0..9999

\* what the last from_file read: the text, the Counter written and the edit
Read == last.arg.val

\* C5: every Counter, whatever its start, end and direction, written by
\* to_file and read back by from_file, comes back equal in all three fields.
C5_RoundTrip ==
    (last.op = "from_file" /\ last.arg.some /\ Read.edit = NoEdit) =>
        last.ret = Ok(Read.by)

\* C5 holds of the Counters whose start and end lie in the years 0 to 9999,
\* which to_rfc3339 writes with the four digits parse_from_rfc3339 reads.
C5_RoundTripFourDigitYears ==
    (last.op = "from_file" /\ last.arg.some /\ Read.edit = NoEdit
     /\ FourDigitYears(Read.by)) =>
        last.ret = Ok(Read.by)

\* a Counter moved past the year 9999 was written and could not be read back
C5_Witness ==
    /\ last.op = "from_file"
    /\ last.arg.some
    /\ Read.edit = NoEdit
    /\ Read.by = Counter(DTAdd(DateTime_default, Weeks(500000)), DateTime_default, "Up")
    /\ last.ret = Err("File does not contain valid start data")

Parsed3(f) ==
    [s |-> parse_from_rfc3339(f[1]), e |-> parse_from_rfc3339(f[2]),
     d |-> Direction_from_str(f[3])]

\* C6: from_file splits the text on newlines; with fewer than three fields, or
\* with one of the first three failing its parse, it returns an error; else it
\* returns the Counter of the first three fields, whatever follows them.
C6_FromFileFields ==
    (last.op = "from_file" /\ last.arg.some) =>
        LET f == Split(Read.text, "\n")
        IN  /\ IF Len(f) < 3 THEN ~last.ret.ok
               ELSE IF ~Parsed3(f).s.ok \/ ~Parsed3(f).e.ok \/ ~Parsed3(f).d.ok
               THEN ~last.ret.ok
               ELSE /\ last.ret = Ok(Counter(Parsed3(f).s.val, Parsed3(f).e.val,
                                              Parsed3(f).d.val))
                    /\ last.ret = from_file(Join(SubSeq(f, 1, 3), "\n"))
            /\ Read.edit.kind = "cut" => ~last.ret.ok
            /\ (Read.edit.kind = "replace" /\ Read.edit.token = <<"n", "o", "w">>)
                  => ~last.ret.ok
            /\ Read.edit.kind = "append" => last.ret = from_file(to_file(Read.by))
            /\ (Read.edit.kind = "append" /\ FourDigitYears(Read.by))
                  => last.ret = Ok(Read.by)

C6_Witness ==
    /\ last.op = "from_file"
    /\ last.arg.some
    /\ Read.edit = Edit("append", 0, <<"x">>)
    /\ Len(Split(Read.text, "\n")) = 4
    /\ last.ret = Ok(Read.by)
    /\ moves > 0

\* C7: a direction token parses only when it is exactly Up or Down; a file
\* whose third field is any other token does not load, and never loads with a
\* direction made up for it; a Direction written and parsed is the same.
C7_DirectionTokens ==
    /\ \A d \in Direction : Direction_from_str(Direction_to_string(d)) = Ok(d)
    /\ \A t \in DirectionTokens :
          Direction_from_str(t).ok <=> t \in {<<"U", "p">>, <<"D", "o", "w", "n">>}
    /\ (last.op = "from_file" /\ last.arg.some) =>
          LET f == Split(Read.text, "\n")
          IN  /\ (Len(f) >= 3 /\ f[3] \notin {<<"U", "p">>, <<"D", "o", "w", "n">>})
                    => ~last.ret.ok
              /\ last.ret.ok => Direction_to_string(last.ret.val.direction) = f[3]

C7_Witness ==
    /\ last.op = "from_file"
    /\ last.arg.some
    /\ Read.edit = Edit("replace", 3, <<"S", "i", "d", "e", "w", "a", "y", "s">>)
    /\ last.ret = Err("File doesn ot contain valid direciton data")

----------------------------------------------------------------------------
(* One Counter, made and then only queried while the clock runs: no flip   *)
(* and no try_move.  The clock is followed until it is MaxClock seconds     *)
(* past the making, which is past every endpoint of ClockArgs.             *)

MaxClock == 3726

ClockDeltas == { Duration_seconds(60), Duration_seconds(3600) }

\* the arguments of Args, and a Counter whose start and end are still to come
ClockArgs ==
    Args \cup { <<Some(DTAdd(Now0, Duration_seconds(90))),
                  Some(DTAdd(Now0, Duration_seconds(90)))>> }

InitClock ==
    /\ \E a \in ClockArgs, d \in Direction :
          LET c == IF d = "Down" THEN Counter_down(a[1], a[2]) ELSE Counter_up(a[1], a[2])
          IN  /\ start = c.start
              /\ end = c.end
              /\ direction = c.direction
              /\ last = [op |-> "new", pre |-> c, arg |-> Now0, ret |-> <<c>>,
                          twice |-> FALSE, origin |-> c]
              /\ made = [arg |-> a, at |-> Now0]
    /\ now = Now0
    /\ file = None
    /\ build = "debug"
    /\ moves = 0
    /\ ticks = 0

\* Utc::now() moves on; last keeps the latest query
ClockTick ==
    /\ DTLe(now, DTAdd(Now0, Duration_seconds(MaxClock)))
    /\ \E delta \in ClockDeltas : now' = DTAdd(now, delta)
    /\ UNCHANGED <<made, build, start, end, direction, last, file, moves, ticks>>

NextClock == Query \/ ClockTick

\* wall-clock time does not stand still
SpecClock == InitClock /\ [][NextClock]_vars /\ WF_vars(ClockTick)

\* the seconds a result of counter() shows in all
Total(r) == BigAdd(BigMulSmall(r[1], 3600), BigOfInt(r[2] * 60 + r[3]))

\* a query follows a query of the same Counter
QueryAfterQuery == last.op = "counter" /\ last'.op = "counter"

\* C13: from one query to the next, with the clock running forward and no flip
\* or try_move in between, the seconds a Down counter shows never increase and
\* those an Up counter shows never decrease; a Down counter shows (0, 0, 0)
\* once now has passed end, keeps showing it in every later query, and gets
\* there in the end; an Up counter shows (0, 0, 0) while now is before start.
C13_MonotoneThenZero ==
    /\ [][(QueryAfterQuery /\ direction = "Down")
             => BigLe(Total(last'.ret), Total(last.ret))]_vars
    /\ [][(QueryAfterQuery /\ direction = "Up")
             => BigLe(Total(last.ret), Total(last'.ret))]_vars
    /\ [][(QueryAfterQuery /\ direction = "Down" /\ last.ret = Zero3)
             => last'.ret = Zero3]_vars
    /\ [](last.op = "counter" =>
             /\ (direction = "Down" /\ DTLe(end, last.arg)) => last.ret = Zero3
             /\ (direction = "Up" /\ DTLe(last.arg, start)) => last.ret = Zero3)
    /\ [](direction = "Down" => <>[](counter(Self, now) = Zero3))

\* a Down counter that showed its 3725 seconds is queried after its end
C13_Witness ==
    /\ last.op = "counter"
    /\ direction = "Down"
    /\ made.arg[2] = Some(DTAdd(Now0, DT(BigOfInt(3725), 1)))
    /\ BigLt(end.secs, last.arg.secs)
    /\ last.ret = Zero3

----------------------------------------------------------------------------
(* src/src/tests.rs: the integer-seconds clock, impl Time for i64, under   *)
(* the generic Counter.  An instant and a span are both an i64.            *)

RECURSIVE Pow2(_)
Pow2(n) == IF n <= 15 THEN NatOfInt(2^n) ELSE NatMulSmall(Pow2(n - 15), 2^15)

I64_MAX == Big(FALSE, NatSub(Pow2(63), <<1>>))
I64_MIN == Big(TRUE, Pow2(63))

InI64(x) == BigLe(I64_MIN, x) /\ BigLe(x, I64_MAX)

\* the i64 that two's complement arithmetic leaves of a sum of two i64
WrapI64(x) ==
    IF BigLt(I64_MAX, x) THEN BigSub(x, Big(FALSE, Pow2(64)))
    ELSE IF BigLt(x, I64_MIN) THEN BigAdd(x, Big(FALSE, Pow2(64)))
    ELSE x

Panic == Err("panic: attempt to add with overflow")

\* impl Time for i64: add_seconds is Ok(self + duration).  The + panics on
\* overflow when the build checks it and wraps when it does not.
i64_add_seconds(b, self, d) ==
    IF InI64(BigAdd(self, d)) THEN Ok(BigAdd(self, d))
    ELSE IF b = "debug" THEN Panic
    ELSE Ok(WrapI64(BigAdd(self, d)))

\* impl Time for i64: now() is 0; i64::default() is 0
i64_now == BigZero
i64_default == BigZero

\* the generic Counter::try_move_start and Counter::try_move_end: the field
\* becomes add_seconds(field, offset) when that is Ok, else it is left alone
\* and the error is the caller's
generic_try_move(b, c, field, offset) ==
    LET r == i64_add_seconds(b, c[field], offset)
    IN  IF r.ok THEN [self |-> [c EXCEPT ![field] = r.val], ret |-> "Ok"]
        ELSE [self |-> c, ret |-> r.err]

I64Offsets ==
    { I64_MAX, I64_MIN, BigOfInt(1), BigOfInt(-1), BigOfInt(10), BigOfInt(-10) }

\* the arguments of the tests' Counter::up and Counter::down
I64Args ==
    { <<None, None>>, <<Some(BigOfInt(-10)), None>>, <<None, Some(BigOfInt(10))>>,
      <<Some(BigOfInt(-10)), Some(BigOfInt(10))>> }

i64_unwrap_or_default(opt) == IF opt.some THEN opt.val ELSE i64_default

\* a panic unwinds out of the test: nothing runs after it
Alive ==
    /\ last.op = "add_seconds" => (last.ret.ok \/ last.ret # Panic)
    /\ last.op \in {"try_move_start", "try_move_end"} => last.ret # Panic.err

InitI64 ==
    /\ \E a \in I64Args, d \in Direction :
          LET c == Counter(i64_unwrap_or_default(a[1]), i64_unwrap_or_default(a[2]), d)
          IN  /\ start = c.start
              /\ end = c.end
              /\ direction = c.direction
              /\ last = [op |-> "new", pre |-> c, arg |-> a, ret |-> "Ok",
                         twice |-> FALSE, origin |-> c]
              /\ made = [arg |-> a, at |-> i64_now]
    /\ now = i64_now
    /\ file = None
    /\ build \in {"debug", "release"}
    /\ moves = 0
    /\ ticks = 0

I64TryMoveStart ==
    /\ Alive
    /\ moves < MaxMoves
    /\ \E offset \in I64Offsets :
          LET r == generic_try_move(build, Self, "start", offset)
          IN  /\ SetSelf(r.self)
              /\ last' = Call("try_move_start", offset, r.ret)
    /\ moves' = moves + 1
    /\ UNCHANGED <<made, build, now, file, ticks>>

I64TryMoveEnd ==
    /\ Alive
    /\ moves < MaxMoves
    /\ \E offset \in I64Offsets :
          LET r == generic_try_move(build, Self, "end", offset)
          IN  /\ SetSelf(r.self)
              /\ last' = Call("try_move_end", offset, r.ret)
    /\ moves' = moves + 1
    /\ UNCHANGED <<made, build, now, file, ticks>>

\* <i64 as Time>::add_seconds, called on its own on one of the Counter's instants
I64AddSeconds ==
    /\ Alive
    /\ \E instant \in {start, end}, span \in I64Offsets :
          last' = Call("add_seconds", <<instant, span>>,
                       i64_add_seconds(build, instant, span))
    /\ UNCHANGED <<made, build, start, end, direction, now, file, moves, ticks>>

I64Flip ==
    /\ Alive
    /\ SetSelf(flip(Self))
    /\ last' = Call("flip", "none", "unit")
    /\ UNCHANGED <<made, build, now, file, moves, ticks>>

NextI64 == I64AddSeconds \/ I64TryMoveStart \/ I64TryMoveEnd \/ I64Flip

SpecI64 == InitI64 /\ [][NextI64]_vars

\* the field the last try_move moved, before and after the call
MovedBefore == IF last.op = "try_move_start" THEN last.pre.start ELSE last.pre.end
MovedAfter  == IF last.op = "try_move_start" THEN start ELSE end

\* C4: add_seconds(instant, span) of the i64 clock returns the overflow error
\* when instant + span is outside [-2^63, 2^63 - 1] and Ok(instant + span)
\* otherwise, never a wrapped value and never a panic; so from start = 0,
\* try_move_start(i64::MAX) is Ok and a following try_move_start(1) returns
\* the overflow error.
C4_AddSecondsChecked ==
    /\ last.op = "add_seconds" =>
          last.ret = IF InI64(BigAdd(last.arg[1], last.arg[2]))
                     THEN Ok(BigAdd(last.arg[1], last.arg[2]))
                     ELSE Err("TimeOverflow")
    /\ last.op \in {"try_move_start", "try_move_end"} =>
          IF InI64(BigAdd(MovedBefore, last.arg))
          THEN last.ret = "Ok" /\ MovedAfter = BigAdd(MovedBefore, last.arg)
          ELSE last.ret = "TimeOverflow" /\ MovedAfter = MovedBefore

\* from start = 0, try_move_start(i64::MAX) was Ok and try_move_start(1) ran
C4_Witness ==
    /\ last.op = "try_move_start"
    /\ moves = 2
    /\ last.pre.start = I64_MAX
    /\ last.arg = BigOfInt(1)
    /\ last.ret # "TimeOverflow"

====
